---- MODULE Spec2Model ----
(***************************************************************************)
(* A model of mpaia: the TelegramBot job registry (the jobs mapping and    *)
(* the APScheduler trigger set), the executions of TelegramMessageJob and  *)
(* TestJob, and the MultiAssistant router's assistant selection.           *)
(***************************************************************************)
EXTENDS Integers, Sequences, FiniteSets, TLC

VARIABLES
    jobs,          \* Bot.jobs: the insertion-ordered dict job id -> Job
    triggers,      \* the scheduler's job store: the (id, job) pairs whose job.execute it fires
    running,       \* the job executions in flight (suspended at an await)
    application,   \* whether TelegramBot.application has been set by initialize()
    token,         \* whether TELEGRAM_BOT_TOKEN is set in the environment
    sent,          \* the (chat id, text) pairs the message channel has delivered
    execCount,     \* job id -> how many executions started since the id was last registered
    firings,       \* how many firings the scheduler has dispatched so far
    last,          \* the step just taken: the operation, the id it concerned, its outcome
    shut,          \* whether TelegramBot.shutdown() has completed
    assistants,    \* MultiAssistant.assistants: the router's list of assistants
    rpc,           \* where the router's select_assistant call stands
    rmessage,      \* the message select_assistant was called with
    response,      \* what the completion provider returned to the selection call
    providerCalls, \* completion-provider calls issued by the current select_assistant call
    selection,     \* the outcome of select_assistant: the assistant returned, or what it raised
    memory,        \* the ChatMessageHistory of MultiAssistant, OpenAIAssistant, DataAssistant
    acall,         \* the assistant's process_message call in flight, or the one that just returned
    mcall,         \* where MultiAssistant.process_message stands, and its outcome
    calls,         \* how many process_message calls callers have made so far
    pending,       \* per caller of the bot's assistant: its process_message call in flight
    events         \* the calls entered and left on the bot's assistant, in the order it happened

botVars == <<jobs, triggers, running, application, token, sent, execCount, firings, last,
            shut>>

routerVars == <<assistants, rpc, rmessage, response, providerCalls, selection>>

chatVars == <<memory, acall, mcall, calls>>

raceVars == <<pending, events>>

vars == <<botVars, routerVars, chatVars, raceVars>>

----------------------------------------------------------------------------
(* Bounds of the model *)

\* the scheduler dispatches at most this many firings in a run
MaxFirings == 3

\* callers make at most this many process_message calls in a run
MaxCalls == 2

\* in a conversation the router holds at most this many assistants
MaxChatAssistants == 2

\* the router holds at most this many assistants
MaxAssistants == 3

\* the completion provider's selection reply has at most this many characters
MaxTextLen == 3

----------------------------------------------------------------------------
(* Jobs: jobs.py *)

\* the dummy cron expression TestJob passes to Job.__init__
TestCron == "* * * * *"

Kinds == {"TelegramMessageJob", "TestJob"}

ChatIds == {1}

\* the (prompt, assistant) pairs jobs are constructed with
Variants == {<<"p1", "a1">>, <<"p2", "a2">>}

\* Job.__init__: the fields of a job object
Job(kind, cron, prompt, chat, assistant) ==
    [kind |-> kind, cron_expression |-> cron, prompt |-> prompt,
     chat_id |-> chat, assistant |-> assistant]

\* TestJob.__init__ always passes the every-minute cron expression
TestJobs == {Job("TestJob", TestCron, v[1], c, v[2]) : v \in Variants, c \in ChatIds}

TelegramMessageJobs ==
    {Job("TelegramMessageJob", TestCron, v[1], c, v[2]) : v \in Variants, c \in ChatIds}

JobObjs == TestJobs \cup TelegramMessageJobs

\* a get_id that also tells jobs apart by their prompt
get_id_with_prompt(job) ==
    job.kind \o "_" \o job.cron_expression \o "_" \o ToString(job.chat_id) \o "_" \o job.prompt

\* Job.get_id: "<class name>_<cron expression>_<chat id>"
get_id(job) == job.kind \o "_" \o job.cron_expression \o "_" \o ToString(job.chat_id)

JobIds == {get_id(j) : j \in JobObjs}

\* an id no job of the model has
UnknownId == "TelegramMessageJob_0 9 * * *_7"

\* the text TestJob.execute builds: generate_message() is not awaited, so the
\* f-string holds the repr of the coroutine object and the assistant never runs
CoroutineRepr == "<coroutine object Job.generate_message>"

TestMessage == "Test message: " \o CoroutineRepr

\* OpenAIAssistant.process_message: the reply of a provider call that succeeded
Reply(prompt) == "reply to " \o prompt

\* OpenAIAssistant.process_message: the string returned when the provider raised
ErrorReply == "An error occurred: provider failure"

\* SimpleAssistant.process_message: the echo
Echo(message) == "You said: " \o message

\* OpenAIAssistant.process_message: the string returned when the provider's
\* response is neither an AIMessage nor a dict with generations
UnexpectedReply == "An error occurred: Unexpected response type"

----------------------------------------------------------------------------
(* The jobs mapping, a Python dict: a sequence of entries in insertion order *)

Keys(d) == [i \in 1..Len(d) |-> d[i].id]

Has(d, k) == \E i \in 1..Len(d) : d[i].id = k

\* d[k], for a key the dict holds
Get(d, k) == d[CHOOSE i \in 1..Len(d) : d[i].id = k].job

\* del d[k]
Del(d, k) == SelectSeq(d, LAMBDA e : e.id # k)

\* d[k] = v: an existing key keeps its position, a new key goes last
Put(d, k, v) ==
    IF Has(d, k)
    THEN [i \in 1..Len(d) |-> IF d[i].id = k THEN [id |-> k, job |-> v] ELSE d[i]]
    ELSE Append(d, [id |-> k, job |-> v])

\* TelegramBot.list_jobs: list(self.jobs.keys())
list_jobs == Keys(jobs)

\* how often id occurs in a list of ids
Occurrences(s, k) == Cardinality({i \in 1..Len(s) : s[i] = k})

\* the ids that have a trigger registered in the scheduler
TriggerIds == {t.id : t \in triggers}

----------------------------------------------------------------------------
(* The scheduler: apscheduler's AsyncIOScheduler as TelegramBot calls it *)

\* scheduler.add_job(job.execute, job.trigger, args=[self], id=job_id) on a started
\* scheduler: the job store refuses an id it already holds
SchedulerAdd(trg, id, job) ==
    IF \E t \in trg : t.id = id
    THEN [triggers |-> trg, exc |-> "ConflictingIdError"]
    ELSE [triggers |-> trg \cup {[id |-> id, job |-> job]}, exc |-> "none"]

\* scheduler.remove_job(job_id): raises JobLookupError for an id it does not hold
SchedulerRemove(trg, id) ==
    IF \E t \in trg : t.id = id
    THEN [triggers |-> {t \in trg : t.id # id}, exc |-> "none"]
    ELSE [triggers |-> trg, exc |-> "JobLookupError"]

\* remove_job without its membership test: the scheduler is asked for any id
remove_job_unchecked(jb, trg, id) ==
    LET r == SchedulerRemove(trg, id) IN
    IF r.exc # "none"
    THEN [jobs |-> jb, triggers |-> trg, exc |-> r.exc]
    ELSE [jobs |-> Del(jb, id), triggers |-> r.triggers, exc |-> "none"]

\* TelegramBot.remove_job: the mapping and trigger set it leaves, and what it raised
remove_job(jb, trg, id) ==
    IF Has(jb, id)
    THEN LET r == SchedulerRemove(trg, id) IN
         IF r.exc # "none"
         THEN [jobs |-> jb, triggers |-> trg, exc |-> r.exc]
         ELSE [jobs |-> Del(jb, id), triggers |-> r.triggers, exc |-> "none"]
    ELSE [jobs |-> jb, triggers |-> trg, exc |-> "none"]

\* add_job that keeps the job already registered under the id instead of replacing it
add_job_keep_old(jb, trg, job) ==
    IF Has(jb, get_id(job))
    THEN [jobs |-> jb, triggers |-> trg, exc |-> "none"]
    ELSE LET r == SchedulerAdd(trg, get_id(job), job) IN
         IF r.exc # "none"
         THEN [jobs |-> jb, triggers |-> trg, exc |-> r.exc]
         ELSE [jobs |-> Put(jb, get_id(job), job), triggers |-> r.triggers, exc |-> "none"]

\* TelegramBot.add_job: the mapping and trigger set it leaves, and what it raised
add_job(jb, trg, job) ==
    LET id == get_id(job)
        s1 == IF Has(jb, id) THEN remove_job(jb, trg, id)
              ELSE [jobs |-> jb, triggers |-> trg, exc |-> "none"]
    IN  IF s1.exc # "none"
        THEN s1
        ELSE LET r == SchedulerAdd(s1.triggers, id, job) IN
             IF r.exc # "none"
             THEN [jobs |-> s1.jobs, triggers |-> s1.triggers, exc |-> r.exc]
             ELSE [jobs |-> Put(s1.jobs, id, job), triggers |-> r.triggers, exc |-> "none"]

\* TelegramBot.add_job when scheduler.add_job raises for a reason of its own (its
\* job store or executor fails): the old job, if any, has been removed by then
add_job_scheduler_fails(jb, trg, job) ==
    LET id == get_id(job)
        s1 == IF Has(jb, id) THEN remove_job(jb, trg, id)
              ELSE [jobs |-> jb, triggers |-> trg, exc |-> "none"]
    IN  IF s1.exc # "none"
        THEN s1
        ELSE [jobs |-> s1.jobs, triggers |-> s1.triggers, exc |-> "SchedulerError"]

\* TelegramBot.remove_job when scheduler.remove_job raises for a reason of its
\* own: the del is not reached; an id not in the mapping never gets to the scheduler
remove_job_scheduler_fails(jb, trg, id) ==
    IF Has(jb, id)
    THEN [jobs |-> jb, triggers |-> trg, exc |-> "SchedulerError"]
    ELSE [jobs |-> jb, triggers |-> trg, exc |-> "none"]

\* a TestJob.execute that deletes its mapping entry and leaves its trigger
TestJobRetireMappingOnly(jb, trg, id) ==
    [jobs |-> Del(jb, id), triggers |-> trg, exc |-> "none"]

\* TestJob.execute after its send returned: bot.scheduler.remove_job(self.get_id())
TestJobRetire(jb, trg, id) ==
    LET r == SchedulerRemove(trg, id) IN
    [jobs |-> jb, triggers |-> r.triggers, exc |-> r.exc]

----------------------------------------------------------------------------
(* The router: MultiAssistant.select_assistant in assistant.py *)

AssistantKinds == {"SimpleAssistant", "OpenAIAssistant", "DataAssistant"}

Messages == {"hi", "weather?"}

Digits == {"0", "1", "2"}

\* the characters of a provider reply: digits, a letter and a sign
TextAlphabet == Digits \cup {"a", "-"}

\* the replies the provider may give: the strings of at most MaxTextLen characters
Texts == UNION {[1..n -> TextAlphabet] : n \in 0..MaxTextLen}

\* what chain.ainvoke hands back: an AIMessage, a dict with "generations", or
\* something of another type
Responses ==
    {[type |-> ty, content |-> tx] : ty \in {"AIMessage", "generations"}, tx \in Texts}
        \cup {[type |-> "other", content |-> <<>>]}

NoResponse == [type |-> "none", content |-> <<>>]

NoSelection == [exc |-> "none", index |-> -1, assistant |-> "none"]

DigitValue(c) ==
    CASE c = "0" -> 0 [] c = "1" -> 1 [] c = "2" -> 2 [] c = "3" -> 3 [] c = "4" -> 4
      [] c = "5" -> 5 [] c = "6" -> 6 [] c = "7" -> 7 [] c = "8" -> 8 [] c = "9" -> 9

\* int(s) of a string of decimal digits
RECURSIVE int(_)
int(s) ==
    IF s = <<>> THEN 0
    ELSE 10 * int(SubSeq(s, 1, Len(s) - 1)) + DigitValue(s[Len(s)])

\* the leftmost match of \d+ starting at i extends over every digit that follows
RECURSIVE MatchEnd(_, _)
MatchEnd(text, i) ==
    IF i < Len(text) /\ text[i + 1] \in Digits THEN MatchEnd(text, i + 1) ELSE i

\* re.search(r"\d+", text): scans from the left for the first position that matches
RECURSIVE SearchFrom(_, _)
SearchFrom(text, i) ==
    IF i > Len(text) THEN [found |-> FALSE, group |-> <<>>]
    ELSE IF text[i] \in Digits
         THEN [found |-> TRUE, group |-> SubSeq(text, i, MatchEnd(text, i))]
         ELSE SearchFrom(text, i + 1)

re_search(text) == SearchFrom(text, 1)

\* a fast path that tests for an empty list instead of a single assistant
CallsProviderUnlessEmpty(assts) == Len(assts) # 0

\* select_assistant's test for the fast path, negated: len(self.assistants) == 1
\* returns assistants[0] at once, any other length goes to the provider
CallsProvider(assts) == Len(assts) # 1

\* select_assistant reading the provider's integer as a 1-based position
ChooseAssistantOneBased(assts, resp) ==
    IF resp.type \notin {"AIMessage", "generations"}
    THEN [exc |-> "ValueError", index |-> -1, assistant |-> "none"]
    ELSE LET match == re_search(resp.content) IN
         IF match.found
         THEN LET index == int(match.group) - 1 IN
              IF index = -1
              THEN [exc |-> "none", index |-> Len(assts) - 1, assistant |-> assts[Len(assts)]]
              ELSE IF index < Len(assts)
                   THEN [exc |-> "none", index |-> index, assistant |-> assts[index + 1]]
                   ELSE [exc |-> "IndexError", index |-> -1, assistant |-> "none"]
         ELSE [exc |-> "ValueError", index |-> -1, assistant |-> "none"]

\* select_assistant falling back to the first assistant when the reply names none
ChooseAssistantWithDefault(assts, resp) ==
    IF resp.type \notin {"AIMessage", "generations"}
    THEN [exc |-> "ValueError", index |-> -1, assistant |-> "none"]
    ELSE LET match == re_search(resp.content) IN
         IF match.found /\ int(match.group) < Len(assts)
         THEN [exc |-> "none", index |-> int(match.group),
               assistant |-> assts[int(match.group) + 1]]
         ELSE [exc |-> "none", index |-> 0, assistant |-> assts[1]]

\* select_assistant from the provider's response on: the response's type is checked,
\* the first integer is searched, and the list is indexed with it (Python index i is
\* position i + 1 of the sequence; a \d+ match is never negative)
ChooseAssistant(assts, resp) ==
    IF resp.type \notin {"AIMessage", "generations"}
    THEN [exc |-> "ValueError", index |-> -1, assistant |-> "none"]
    ELSE LET match == re_search(resp.content) IN
         IF match.found
         THEN LET index == int(match.group) IN
              IF index < Len(assts)
              THEN [exc |-> "none", index |-> index, assistant |-> assts[index + 1]]
              ELSE [exc |-> "IndexError", index |-> -1, assistant |-> "none"]
         ELSE [exc |-> "ValueError", index |-> -1, assistant |-> "none"]

----------------------------------------------------------------------------
(* The conversation memories and process_message of the assistants, assistant.py *)

\* the objects that hold a ChatMessageHistory in self.memory
MemoryOwners == {"MultiAssistant", "OpenAIAssistant", "DataAssistant"}

\* a message of a ChatMessageHistory: its type ("human", "ai") and its content
Turn(type, content) == [type |-> type, content |-> content]

\* ChatMessageHistory.add_user_message on the memory of owner
add_user_message(mem, owner, message) ==
    [mem EXCEPT ![owner] = Append(@, Turn("human", message))]

\* an add_ai_message that puts the reply in front of the history
add_ai_message_in_front(mem, owner, message) ==
    [mem EXCEPT ![owner] = <<Turn("ai", message)>> \o @]

\* ChatMessageHistory.add_ai_message on the memory of owner
add_ai_message(mem, owner, message) ==
    [mem EXCEPT ![owner] = Append(@, Turn("ai", message))]

\* what the completion provider or the query agent does with a call
BackendOutcomes(kind) ==
    IF kind = "OpenAIAssistant" THEN {"reply", "unexpected", "raises"}
    ELSE {"reply", "raises"}

\* what a process_message call leaves: the memories, the string returned, the
\* exception raised ("none" when it returned)
Outcome(mem, reply, exc) == [memory |-> mem, reply |-> reply, exc |-> exc]

\* an OpenAIAssistant.process_message that records the user message in the
\* memory in use, the supplied one when there is one
OpenAIEnterEffective(mem, supplied, message) ==
    add_user_message(mem, IF supplied THEN "MultiAssistant" ELSE "OpenAIAssistant", message)

\* OpenAIAssistant.process_message up to the await of chain.ainvoke: the user
\* message goes to self.memory, whatever memory was supplied
OpenAIEnter(mem, supplied, message) ==
    add_user_message(mem, "OpenAIAssistant", message)

\* OpenAIAssistant.process_message with no handler around the provider call
OpenAILeaveUnguarded(mem, supplied, message, outcome) ==
    IF outcome = "reply"
    THEN Outcome(add_ai_message(mem, "OpenAIAssistant", Reply(message)),
                 Reply(message), "none")
    ELSE Outcome(mem, "", IF outcome = "raises" THEN "ProviderError" ELSE "ValueError")

\* OpenAIAssistant.process_message from the return of chain.ainvoke on: the
\* reply goes to self.memory and is returned; any exception becomes a string
OpenAILeave(mem, supplied, message, outcome) ==
    IF outcome = "reply"
    THEN Outcome(add_ai_message(mem, "OpenAIAssistant", Reply(message)),
                 Reply(message), "none")
    ELSE IF outcome = "unexpected"
    THEN Outcome(mem, UnexpectedReply, "none")
    ELSE Outcome(mem, ErrorReply, "none")

\* DataAssistant.process_message up to agent.stream: the user message goes to
\* the memory in use (the supplied one, else self.memory) and to self.memory
DataEnter(mem, supplied, message) ==
    LET used == IF supplied THEN "MultiAssistant" ELSE "DataAssistant" IN
    add_user_message(add_user_message(mem, used, message), "DataAssistant", message)

\* DataAssistant.process_message from agent.stream on: the result is returned,
\* no memory is written; any exception becomes a string
DataLeave(mem, supplied, message, outcome) ==
    IF outcome = "reply"
    THEN Outcome(mem, Reply(message), "none")
    ELSE Outcome(mem, ErrorReply, "none")

\* process_message of an assistant of the given kind, up to its backend call
Enter(kind, mem, supplied, message) ==
    IF kind = "OpenAIAssistant" THEN OpenAIEnter(mem, supplied, message)
    ELSE IF kind = "DataAssistant" THEN DataEnter(mem, supplied, message)
    ELSE mem

\* process_message of an assistant of the given kind, from its backend call on
Leave(kind, mem, supplied, message, outcome) ==
    IF kind = "OpenAIAssistant" THEN OpenAILeave(mem, supplied, message, outcome)
    ELSE IF kind = "DataAssistant" THEN DataLeave(mem, supplied, message, outcome)
    ELSE Outcome(mem, Echo(message), "none")

\* a process_message call of an assistant: pc is "awaiting" while its backend
\* call is out, then "returned" or "raised"; supplied tells whether the caller
\* passed memory=
Call(pc, kind, message, supplied, outcome, reply, exc) ==
    [pc |-> pc, kind |-> kind, message |-> message, supplied |-> supplied,
     outcome |-> outcome, reply |-> reply, exc |-> exc]

NoCall == Call("idle", "none", "", FALSE, "none", "", "none")

\* a MultiAssistant.process_message call: before is self.memory.messages at the
\* call, pc is "selecting" while the selection call is out, "delegated" while
\* the selected assistant works, then "returned" or "raised"
MultiCall(pc, message, before, reply, exc) ==
    [pc |-> pc, message |-> message, before |-> before, reply |-> reply, exc |-> exc]

NoMultiCall == MultiCall("idle", "", <<>>, "", "none")

\* who calls process_message on the bot's assistant with no memory: the handler
\* of inbound messages, and a job firing (Job.generate_message)
Callers == {"handle_message", "generate_message"}

\* the texts a caller passes: a chat message, a job's prompt
CallerTexts(caller) == IF caller = "handle_message" THEN Messages ELSE {"p1", "p2"}

\* a caller's call in flight: n numbers the calls in the order they were made
Pending(n, message) == [n |-> n, message |-> message]

NoPending == Pending(0, "")

\* a call entered with its message, or left with what it returned
Event(kind, n, text, outcome) == [kind |-> kind, n |-> n, text |-> text, outcome |-> outcome]

----------------------------------------------------------------------------
(* The state after TelegramBot.__init__ and MultiAssistant.__init__ *)

\* stands for "no job" in the record of a step that concerns none
NoJob == Job("none", "", "", 0, "")

\* the record of a step: replaced is add_job's "already exists. Replacing it." branch
Step(op, id, job, exc, delivered, replaced) ==
    [op |-> op, id |-> id, job |-> job, exc |-> exc, delivered |-> delivered,
     replaced |-> replaced]

\* an execution in flight: the job object whose execute runs, and where it is suspended
Execution(id, job, pc, message) ==
    [id |-> id, job |-> job, pc |-> pc, message |-> message]

Init ==
    /\ jobs = <<>>
    /\ triggers = {}
    /\ running = {}
    /\ application = FALSE
    /\ token \in BOOLEAN
    /\ sent = {}
    /\ execCount = [id \in JobIds |-> 0]
    /\ firings = 0
    /\ last = Step("init", "", NoJob, "none", FALSE, FALSE)
    /\ shut = FALSE
    /\ assistants = <<"OpenAIAssistant">>
    /\ rpc = "idle"
    /\ rmessage = ""
    /\ response = NoResponse
    /\ providerCalls = 0
    /\ selection = NoSelection
    /\ memory = [o \in MemoryOwners |-> <<>>]
    /\ acall = NoCall
    /\ mcall = NoMultiCall
    /\ calls = 0
    /\ pending = [c \in Callers |-> NoPending]
    /\ events = <<>>

----------------------------------------------------------------------------
(* The operations *)

\* a caller adds a job: TelegramBot.add_job(job)
AddJob(job) ==
    LET r == add_job(jobs, triggers, job) IN
    /\ jobs' = r.jobs
    /\ triggers' = r.triggers
    /\ execCount' = IF r.exc = "none" THEN [execCount EXCEPT ![get_id(job)] = 0]
                    ELSE execCount
    /\ last' = Step("add_job", get_id(job), job, r.exc, FALSE, Has(jobs, get_id(job)))
    /\ UNCHANGED <<running, application, token, sent, firings, shut, routerVars, chatVars, raceVars>>

\* a caller removes a job: TelegramBot.remove_job(job_id)
RemoveJob(id) ==
    LET r == remove_job(jobs, triggers, id) IN
    /\ jobs' = r.jobs
    /\ triggers' = r.triggers
    /\ last' = Step("remove_job", id, NoJob, r.exc, FALSE, FALSE)
    /\ UNCHANGED <<running, application, token, sent, execCount, firings, shut, routerVars, chatVars, raceVars>>

\* TelegramBot.initialize: raises ValueError without a token, else sets self.application
Initialize ==
    /\ ~application
    /\ application' = token
    /\ last' = Step("initialize", "", NoJob, IF token THEN "none" ELSE "ValueError", FALSE, FALSE)
    /\ UNCHANGED <<jobs, triggers, running, token, sent, execCount, firings, shut, routerVars, chatVars, raceVars>>

\* The scheduler dispatches a due trigger (max_instances = 1: not while an execution
\* of the same id is in flight) and the job's execute runs to its first suspension.
\* TelegramMessageJob.execute suspends in generate_message(); TestJob.execute builds
\* its text without awaiting, then calls send_scheduled_message(None, ...), which
\* suspends in the channel if self.application exists and otherwise only logs.
FireStart(t) ==
    /\ firings < MaxFirings
    /\ ~\E e \in running : e.id = t.id
    /\ firings' = firings + 1
    /\ execCount' = [execCount EXCEPT ![t.id] = @ + 1]
    /\ IF t.job.kind = "TestJob"
       THEN IF application
            THEN /\ running' = running \cup {Execution(t.id, t.job, "send", TestMessage)}
                 /\ last' = Step("fire", t.id, t.job, "none", FALSE, FALSE)
                 /\ UNCHANGED <<jobs, triggers>>
            ELSE LET r == TestJobRetire(jobs, triggers, get_id(t.job)) IN
                 /\ jobs' = r.jobs
                 /\ triggers' = r.triggers
                 /\ last' = Step("fire_done", t.id, t.job, r.exc, FALSE, FALSE)
                 /\ UNCHANGED running
       ELSE /\ running' = running \cup {Execution(t.id, t.job, "generate", "")}
            /\ last' = Step("fire", t.id, t.job, "none", FALSE, FALSE)
            /\ UNCHANGED <<jobs, triggers>>
    /\ UNCHANGED <<application, token, sent, shut, routerVars, chatVars, raceVars>>

\* TelegramMessageJob.execute resumes with the assistant's reply (the error string
\* when the provider failed: process_message does not raise) and calls
\* send_scheduled_message(None, chat_id, message)
GenerateDone(e, ok) ==
    /\ e.pc = "generate"
    /\ LET message == IF ok THEN Reply(e.job.prompt) ELSE ErrorReply IN
       IF application
       THEN /\ running' = (running \ {e}) \cup {Execution(e.id, e.job, "send", message)}
            /\ last' = Step("generated", e.id, e.job, "none", FALSE, FALSE)
       ELSE /\ running' = running \ {e}
            /\ last' = Step("fire_done", e.id, e.job, "none", FALSE, FALSE)
    /\ UNCHANGED <<jobs, triggers, application, token, sent, execCount, firings, shut, routerVars, chatVars, raceVars>>

\* application.bot.send_message returns (ok) or raises; a TestJob whose send
\* returned then retires itself; an exception ends the execution, caught by the executor
SendDone(e, ok) ==
    /\ e.pc = "send"
    /\ running' = running \ {e}
    /\ IF ok
       THEN /\ sent' = sent \cup {<<e.job.chat_id, e.message>>}
            /\ IF e.job.kind = "TestJob"
               THEN LET r == TestJobRetire(jobs, triggers, get_id(e.job)) IN
                    /\ jobs' = r.jobs
                    /\ triggers' = r.triggers
                    /\ last' = Step("fire_done", e.id, e.job, r.exc, TRUE, FALSE)
               ELSE /\ last' = Step("fire_done", e.id, e.job, "none", TRUE, FALSE)
                    /\ UNCHANGED <<jobs, triggers>>
       ELSE /\ last' = Step("fire_done", e.id, e.job, "TelegramError", FALSE, FALSE)
            /\ UNCHANGED <<jobs, triggers, sent>>
    /\ UNCHANGED <<application, token, execCount, firings, shut, routerVars, chatVars, raceVars>>

Next ==
    \/ \E job \in JobObjs : AddJob(job)
    \/ \E id \in JobIds \cup {UnknownId} : RemoveJob(id)
    \/ Initialize
    \/ \E t \in triggers : FireStart(t)
    \/ \E e \in running, ok \in BOOLEAN : GenerateDone(e, ok)
    \/ \E e \in running, ok \in BOOLEAN : SendDone(e, ok)

\* the bot and its scheduler; the router is left alone
Spec == Init /\ [][Next]_vars

\* add_job(job) while the scheduler's add_job fails
AddJobSchedulerFails(job) ==
    LET r == add_job_scheduler_fails(jobs, triggers, job) IN
    /\ jobs' = r.jobs
    /\ triggers' = r.triggers
    /\ last' = Step("add_job", get_id(job), job, r.exc, FALSE, Has(jobs, get_id(job)))
    /\ UNCHANGED <<running, application, token, sent, execCount, firings, shut, routerVars, chatVars, raceVars>>

\* remove_job(job_id) while the scheduler's remove_job fails
RemoveJobSchedulerFails(id) ==
    LET r == remove_job_scheduler_fails(jobs, triggers, id) IN
    /\ jobs' = r.jobs
    /\ triggers' = r.triggers
    /\ last' = Step("remove_job", id, NoJob, r.exc, FALSE, FALSE)
    /\ UNCHANGED <<running, application, token, sent, execCount, firings, shut, routerVars, chatVars, raceVars>>

NextFaulty ==
    \/ \E job \in JobObjs : AddJob(job)
    \/ \E id \in JobIds \cup {UnknownId} : RemoveJob(id)
    \/ Initialize
    \/ \E t \in triggers : FireStart(t)
    \/ \E e \in running, ok \in BOOLEAN : GenerateDone(e, ok)
    \/ \E e \in running, ok \in BOOLEAN : SendDone(e, ok)
    \/ \E job \in JobObjs : AddJobSchedulerFails(job)
    \/ \E id \in JobIds \cup {UnknownId} : RemoveJobSchedulerFails(id)

\* the bot with a scheduler whose add_job and remove_job may fail
SpecFaulty == Init /\ [][NextFaulty]_vars

\* TelegramBot.shutdown() runs to its end: it stops the updater and the
\* application; self.scheduler is not touched. Without self.application it raises.
Shutdown ==
    /\ application /\ ~shut
    /\ shut' = TRUE
    /\ last' = Step("shutdown", "", NoJob, "none", FALSE, FALSE)
    /\ UNCHANGED <<jobs, triggers, running, application, token, sent, execCount, firings,
                   routerVars, chatVars, raceVars>>

NextShutdown ==
    \/ \E job \in JobObjs : AddJob(job)
    \/ \E id \in JobIds \cup {UnknownId} : RemoveJob(id)
    \/ Initialize
    \/ \E t \in triggers : FireStart(t)
    \/ \E e \in running, ok \in BOOLEAN : GenerateDone(e, ok)
    \/ \E e \in running, ok \in BOOLEAN : SendDone(e, ok)
    \/ Shutdown

\* the bot over its whole life, shutdown() included
SpecShutdown == Init /\ [][NextShutdown]_vars

----------------------------------------------------------------------------
(* The router's operations *)

\* MultiAssistant(assistants) for any non-empty list of assistants
InitRouter ==
    /\ jobs = <<>>
    /\ triggers = {}
    /\ running = {}
    /\ application = FALSE
    /\ token = TRUE
    /\ sent = {}
    /\ execCount = [id \in JobIds |-> 0]
    /\ firings = 0
    /\ last = Step("init", "", NoJob, "none", FALSE, FALSE)
    /\ shut = FALSE
    /\ assistants \in UNION {[1..n -> AssistantKinds] : n \in 1..MaxAssistants}
    /\ rpc = "idle"
    /\ rmessage = ""
    /\ response = NoResponse
    /\ providerCalls = 0
    /\ selection = NoSelection
    /\ memory = [o \in MemoryOwners |-> <<>>]
    /\ acall = NoCall
    /\ mcall = NoMultiCall
    /\ calls = 0
    /\ pending = [c \in Callers |-> NoPending]
    /\ events = <<>>

\* select_assistant(message) is called: with one assistant it returns assistants[0]
\* at once; otherwise it builds the chain and suspends in chain.ainvoke
SelectStart(message) ==
    /\ rpc = "idle"
    /\ rmessage' = message
    /\ response' = NoResponse
    /\ IF CallsProvider(assistants)
       THEN /\ rpc' = "awaiting"
            /\ providerCalls' = 1
            /\ selection' = NoSelection
       ELSE /\ rpc' = "returned"
            /\ providerCalls' = 0
            /\ selection' = [exc |-> "none", index |-> 0, assistant |-> assistants[1]]
    /\ UNCHANGED <<assistants, botVars, chatVars, raceVars>>

\* chain.ainvoke returns and select_assistant runs to its end
ProviderReturns(resp) ==
    /\ rpc = "awaiting"
    /\ response' = resp
    /\ selection' = ChooseAssistant(assistants, resp)
    /\ rpc' = IF selection'.exc = "none" THEN "returned" ELSE "raised"
    /\ UNCHANGED <<assistants, rmessage, providerCalls, botVars, chatVars, raceVars>>

\* chain.ainvoke raises: select_assistant has no handler, the exception propagates
ProviderRaises ==
    /\ rpc = "awaiting"
    /\ selection' = [exc |-> "ProviderError", index |-> -1, assistant |-> "none"]
    /\ rpc' = "raised"
    /\ UNCHANGED <<assistants, rmessage, response, providerCalls, botVars, chatVars, raceVars>>

\* MultiAssistant.process_message goes on after select_assistant returned: it calls
\* selected_assistant.process_message(message, memory=self.memory); an exception of
\* select_assistant leaves process_message before this call
Delegate ==
    /\ rpc = "returned"
    /\ rpc' = "delegated"
    /\ response' = NoResponse
    /\ UNCHANGED <<assistants, rmessage, providerCalls, selection, botVars, chatVars, raceVars>>

\* the caller has taken the result; the router is ready for the next message
SelectEnd ==
    /\ rpc \in {"returned", "raised", "delegated"}
    /\ rpc' = "idle"
    /\ response' = NoResponse
    /\ providerCalls' = 0
    /\ selection' = NoSelection
    /\ UNCHANGED <<assistants, rmessage, botVars, chatVars, raceVars>>

NextRouter ==
    \/ \E message \in Messages : SelectStart(message)
    \/ \E resp \in Responses : ProviderReturns(resp)
    \/ ProviderRaises
    \/ Delegate
    \/ SelectEnd

\* the router; the bot is left alone
SpecRouter == InitRouter /\ [][NextRouter]_vars

----------------------------------------------------------------------------
(* Conversations: process_message of the assistants and of the router *)

\* the selection replies the provider gives in a conversation
SelectionReplies ==
    {[type |-> "AIMessage", content |-> c] : c \in {<<"0">>, <<"1">>, <<"2">>, <<"a">>}}

\* an assistant's process_message is entered: SimpleAssistant returns at once,
\* the other two go up to their backend call
Begin(kind, mem, supplied, message) ==
    IF kind = "SimpleAssistant"
    THEN LET r == Leave(kind, mem, supplied, message, "reply") IN
         [memory |-> r.memory,
          acall |-> Call("returned", kind, message, supplied, "reply", r.reply, r.exc)]
    ELSE [memory |-> Enter(kind, mem, supplied, message),
          acall |-> Call("awaiting", kind, message, supplied, "none", "", "none")]

\* MultiAssistant(assistants) and one assistant of each kind, all memories empty
InitChat ==
    /\ jobs = <<>>
    /\ triggers = {}
    /\ running = {}
    /\ application = FALSE
    /\ token = TRUE
    /\ sent = {}
    /\ execCount = [id \in JobIds |-> 0]
    /\ firings = 0
    /\ last = Step("init", "", NoJob, "none", FALSE, FALSE)
    /\ shut = FALSE
    /\ assistants \in UNION {[1..n -> AssistantKinds] : n \in 1..MaxChatAssistants}
    /\ rpc = "idle"
    /\ rmessage = ""
    /\ response = NoResponse
    /\ providerCalls = 0
    /\ selection = NoSelection
    /\ memory = [o \in MemoryOwners |-> <<>>]
    /\ acall = NoCall
    /\ mcall = NoMultiCall
    /\ calls = 0
    /\ pending = [c \in Callers |-> NoPending]
    /\ events = <<>>

\* a caller (TelegramBot.handle_message, Job.generate_message) calls
\* assistant.process_message(message) with no memory
Ask(kind, message) ==
    /\ acall.pc = "idle" /\ mcall.pc = "idle"
    /\ calls < MaxCalls
    /\ LET b == Begin(kind, memory, FALSE, message) IN
           /\ memory' = b.memory
           /\ acall' = b.acall
    /\ calls' = calls + 1
    /\ UNCHANGED <<mcall, botVars, routerVars, raceVars>>

\* the provider (chain.ainvoke) or the agent (agent.stream) is done and the
\* assistant's process_message runs to its end
BackendDone(outcome) ==
    /\ acall.pc = "awaiting"
    /\ outcome \in BackendOutcomes(acall.kind)
    /\ LET r == Leave(acall.kind, memory, acall.supplied, acall.message, outcome) IN
           /\ memory' = r.memory
           /\ acall' = [acall EXCEPT !.pc = IF r.exc = "none" THEN "returned" ELSE "raised",
                                     !.outcome = outcome, !.reply = r.reply, !.exc = r.exc]
    /\ UNCHANGED <<mcall, calls, botVars, routerVars, raceVars>>

\* the direct caller has taken the reply
AskEnd ==
    /\ acall.pc \in {"returned", "raised"} /\ mcall.pc = "idle"
    /\ acall' = NoCall
    /\ UNCHANGED <<memory, mcall, calls, botVars, routerVars, raceVars>>

\* MultiAssistant.process_message(message) is called: the user message goes to
\* self.memory, then select_assistant; with one assistant the selection returns
\* at once and the assistant's process_message is entered with memory=self.memory
ProcessStart(message) ==
    /\ acall.pc = "idle" /\ mcall.pc = "idle"
    /\ calls < MaxCalls
    /\ calls' = calls + 1
    /\ LET before == memory["MultiAssistant"]
           mem == add_user_message(memory, "MultiAssistant", message) IN
       IF CallsProvider(assistants)
       THEN /\ memory' = mem
            /\ mcall' = MultiCall("selecting", message, before, "", "none")
            /\ UNCHANGED acall
       ELSE LET b == Begin(assistants[1], mem, TRUE, message) IN
            /\ memory' = b.memory
            /\ acall' = b.acall
            /\ mcall' = MultiCall("delegated", message, before, "", "none")
    /\ UNCHANGED <<botVars, routerVars, raceVars>>

\* a process_message that takes its user turn back when select_assistant raises
SelectionReturnsRollingBack(resp) ==
    /\ mcall.pc = "selecting"
    /\ LET sel == ChooseAssistant(assistants, resp) IN
       IF sel.exc = "none"
       THEN LET b == Begin(sel.assistant, memory, TRUE, mcall.message) IN
            /\ memory' = b.memory
            /\ acall' = b.acall
            /\ mcall' = [mcall EXCEPT !.pc = "delegated"]
       ELSE /\ mcall' = [mcall EXCEPT !.pc = "raised", !.exc = sel.exc]
            /\ memory' = [memory EXCEPT !["MultiAssistant"] = mcall.before]
            /\ UNCHANGED acall
    /\ UNCHANGED <<calls, botVars, routerVars, raceVars>>

\* the selection call returns: select_assistant raises, or returns the assistant
\* whose process_message is then entered with memory=self.memory
SelectionReturns(resp) ==
    /\ mcall.pc = "selecting"
    /\ LET sel == ChooseAssistant(assistants, resp) IN
       IF sel.exc = "none"
       THEN LET b == Begin(sel.assistant, memory, TRUE, mcall.message) IN
            /\ memory' = b.memory
            /\ acall' = b.acall
            /\ mcall' = [mcall EXCEPT !.pc = "delegated"]
       ELSE /\ mcall' = [mcall EXCEPT !.pc = "raised", !.exc = sel.exc]
            /\ UNCHANGED <<memory, acall>>
    /\ UNCHANGED <<calls, botVars, routerVars, raceVars>>

\* the selection call raises: neither select_assistant nor process_message has a
\* handler, the exception leaves process_message
SelectionRaises ==
    /\ mcall.pc = "selecting"
    /\ mcall' = [mcall EXCEPT !.pc = "raised", !.exc = "ProviderError"]
    /\ UNCHANGED <<memory, acall, calls, botVars, routerVars, raceVars>>

\* the selected assistant's process_message is over: its reply goes to
\* self.memory and is returned; an exception of it leaves process_message
ProcessFinish ==
    /\ mcall.pc = "delegated"
    /\ acall.pc \in {"returned", "raised"}
    /\ IF acall.pc = "returned"
       THEN /\ memory' = add_ai_message(memory, "MultiAssistant", acall.reply)
            /\ mcall' = [mcall EXCEPT !.pc = "returned", !.reply = acall.reply]
       ELSE /\ mcall' = [mcall EXCEPT !.pc = "raised", !.exc = acall.exc]
            /\ UNCHANGED memory
    /\ acall' = NoCall
    /\ UNCHANGED <<calls, botVars, routerVars, raceVars>>

\* the caller of MultiAssistant.process_message has taken the outcome
ProcessEnd ==
    /\ mcall.pc \in {"returned", "raised"}
    /\ mcall' = NoMultiCall
    /\ UNCHANGED <<memory, acall, calls, botVars, routerVars, raceVars>>

NextChat ==
    \/ \E kind \in AssistantKinds, message \in Messages : Ask(kind, message)
    \/ \E outcome \in {"reply", "unexpected", "raises"} : BackendDone(outcome)
    \/ AskEnd
    \/ \E message \in Messages : ProcessStart(message)
    \/ \E resp \in SelectionReplies : SelectionReturns(resp)
    \/ SelectionRaises
    \/ ProcessFinish
    \/ ProcessEnd

\* conversations with the assistants and the router, one call at a time
SpecChat == InitChat /\ [][NextChat]_vars

----------------------------------------------------------------------------
(* Interleaved calls on one OpenAIAssistant: TelegramBot.handle_message and
   Job.generate_message both call self.assistant.process_message(text) *)

\* TelegramBot(assistant) with an OpenAIAssistant whose memory is empty
InitInterleave == InitChat /\ assistants = <<"OpenAIAssistant">>

\* a caller's process_message(message) runs up to its await of chain.ainvoke;
\* the other caller's call may be suspended there at this time
CallEnter(caller, message) ==
    /\ pending[caller] = NoPending
    /\ calls < MaxCalls
    /\ calls' = calls + 1
    /\ memory' = OpenAIEnter(memory, FALSE, message)
    /\ pending' = [pending EXCEPT ![caller] = Pending(calls + 1, message)]
    /\ events' = Append(events, Event("enter", calls + 1, message, "none"))
    /\ UNCHANGED <<acall, mcall, botVars, routerVars>>

\* the provider call of a caller's process_message is over and the call runs
\* to its end
CallLeave(caller, outcome) ==
    /\ pending[caller] # NoPending
    /\ LET c == pending[caller]
           r == OpenAILeave(memory, FALSE, c.message, outcome) IN
           /\ memory' = r.memory
           /\ events' = Append(events, Event("leave", c.n, r.reply, outcome))
    /\ pending' = [pending EXCEPT ![caller] = NoPending]
    /\ UNCHANGED <<acall, mcall, calls, botVars, routerVars>>

NextInterleave ==
    \/ \E caller \in Callers : \E message \in CallerTexts(caller) : CallEnter(caller, message)
    \/ \E caller \in Callers, outcome \in BackendOutcomes("OpenAIAssistant") :
           CallLeave(caller, outcome)

\* an inbound message and a job firing on the same OpenAIAssistant
SpecInterleave == InitInterleave /\ [][NextInterleave]_vars

----------------------------------------------------------------------------
(* Properties of the job registry *)

\* the ids of one-shot jobs
TestJobIds == {get_id(j) : j \in TestJobs}

\* the triggers the scheduler holds for an id
TriggersOf(trg, id) == {t \in trg : t.id = id}

\* C1: in every reachable state the set of ids list_jobs reports equals the set of
\* ids that have a trigger registered in the scheduler.
C1_RegistryEqualsTriggers ==
    {list_jobs[i] : i \in 1..Len(list_jobs)} = TriggerIds

\* C2: once a one-shot TestJob has fired and delivered its message, list_jobs no
\* longer contains its id.
C2_OneShotGoneFromList ==
    (last.op = "fire_done" /\ last.job.kind = "TestJob" /\ last.delivered)
        => Occurrences(list_jobs, last.id) = 0

\* C3: a registered one-shot TestJob starts at most one execution, whatever the
\* outcome of the channel send.
C3_OneShotAtMostOnce ==
    \A id \in TestJobIds : execCount[id] <= 1

\* C4: two add_job calls in a row with the same identity leave exactly one entry
\* under it in the mapping, exactly one trigger in the scheduler, and list_jobs
\* reporting the id exactly once.
C4_AddTwiceLeavesOne ==
    [][(last.op = "add_job" /\ last'.op = "add_job" /\ last'.id = last.id)
        => /\ Occurrences(Keys(jobs'), last'.id) = 1
           /\ Cardinality(TriggersOf(triggers', last'.id)) = 1]_vars

\* C5: add_job(j2) called while a job with the same identity is active (in the
\* mapping, with its trigger in the scheduler) leaves j2 as the mapping entry and
\* the trigger of that identity bound to j2.execute, and to no other job's.
C5_NewerReplacesOlder ==
    [][\A j2 \in JobObjs :
        (/\ last'.op = "add_job" /\ last'.job = j2
         /\ Has(jobs, get_id(j2))
         /\ get_id(j2) \in TriggerIds)
        => /\ Has(jobs', get_id(j2))
           /\ Get(jobs', get_id(j2)) = j2
           /\ TriggersOf(triggers', get_id(j2)) = {[id |-> get_id(j2), job |-> j2]}]_vars

\* C5 witness: an add_job has replaced a different job registered under its identity
C5_Witness ==
    /\ last.op = "add_job" /\ last.replaced /\ last.exc = "none"
    /\ \E e \in running : e.id = last.id /\ e.job # last.job

\* C6: add_job of a job whose identity is already in the mapping does not raise,
\* and afterwards the new job is the active one.
C6_ConflictNeverRaises ==
    (last.op = "add_job" /\ last.replaced)
        => /\ last.exc = "none"
           /\ Has(jobs, last.id) /\ Get(jobs, last.id) = last.job
           /\ TriggersOf(triggers, last.id) = {[id |-> last.id, job |-> last.job]}

\* C7: remove_job of an id that is not in the mapping does not raise and leaves the
\* mapping, list_jobs and the scheduler's trigger set unchanged.
C7_RemoveUnknownIsNoOp ==
    [][(last'.op = "remove_job" /\ ~Has(jobs, last'.id))
        => /\ last'.exc = "none"
           /\ jobs' = jobs
           /\ Keys(jobs') = Keys(jobs)
           /\ triggers' = triggers]_vars

\* C7 witness: remove_job was called with an unknown id while jobs are registered
C7_Witness ==
    /\ last.op = "remove_job" /\ last.id = UnknownId
    /\ jobs # <<>> /\ triggers # {}

\* C8: after remove_job(id) returns, id is absent from the mapping and from the
\* scheduler's trigger set, and the call did not raise.
C8_RemoveAlwaysRemoves ==
    last.op = "remove_job"
        => /\ last.exc = "none"
           /\ ~Has(jobs, last.id)
           /\ last.id \notin TriggerIds

----------------------------------------------------------------------------
(* Properties of the router's selection *)

\* the positions of a text that hold a digit
DigitPositions(text) == {i \in 1..Len(text) : text[i] \in Digits}

\* where the first integer literal of a text starts: at its leftmost digit
LiteralStart(text) ==
    CHOOSE i \in DigitPositions(text) : \A j \in DigitPositions(text) : i <= j

\* where it ends: at the last digit of the unbroken run of digits from its start
LiteralStop(text) ==
    CHOOSE k \in LiteralStart(text)..Len(text) :
        /\ \A m \in LiteralStart(text)..k : m \in DigitPositions(text)
        /\ (k + 1) \notin DigitPositions(text)

RECURSIVE PlaceValues(_, _, _)
PlaceValues(text, m, stop) ==
    IF m > stop THEN 0
    ELSE DigitValue(text[m]) * 10 ^ (stop - m) + PlaceValues(text, m + 1, stop)

\* the value of the first integer literal of a text that holds a digit
FirstInteger(text) == PlaceValues(text, LiteralStart(text), LiteralStop(text))

\* C9: with exactly one assistant, select_assistant returns that assistant and
\* issues no completion-provider call, for every message.
C9_SingleAssistantFastPath ==
    Len(assistants) = 1
        => /\ providerCalls = 0
           /\ response = NoResponse
           /\ rpc \in {"idle", "returned", "delegated"}
           /\ rpc = "returned"
                => selection = [exc |-> "none", index |-> 0, assistant |-> assistants[1]]

\* C9 witness: a router with one assistant has answered a select_assistant call
C9_Witness ==
    Len(assistants) = 1 /\ rpc = "returned" /\ rmessage = "weather?"

\* C10: with two or more assistants, a finished select_assistant call has invoked
\* the completion provider exactly once, and if the first integer literal i of the
\* returned text satisfies 0 <= i < len(assistants) the call returned assistants[i].
C10_SelectsByFirstInteger ==
    (Len(assistants) >= 2 /\ rpc \in {"returned", "raised"})
        => /\ providerCalls = 1
           /\ (/\ response.type \in {"AIMessage", "generations"}
               /\ DigitPositions(response.content) # {}
               /\ FirstInteger(response.content) < Len(assistants))
                => /\ rpc = "returned"
                   /\ selection.exc = "none"
                   /\ selection.index = FirstInteger(response.content)
                   /\ selection.assistant = assistants[FirstInteger(response.content) + 1]

\* C10 witness: of two integers in the reply the first one, in range, was taken
C10_Witness ==
    /\ Len(assistants) = 3 /\ rpc = "returned"
    /\ response.content = <<"2", "a", "0">>
    /\ selection.index = 2 /\ assistants[3] # assistants[1]

\* what select_assistant raises when the reply names no assistant of the list
SelectionFailures == {"ValueError", "IndexError"}

\* a reply names an assistant when it holds a digit and its first integer literal
\* (an unbroken run of decimal digits, read without a sign) is below the list's length
NamesAssistant(text, n) == DigitPositions(text) # {} /\ FirstInteger(text) < n

\* C11: with two or more assistants, when the provider's selection reply holds no
\* integer, or its first integer is not in [0, len(assistants)), select_assistant
\* raises a selection failure, and process_message never calls an assistant's
\* process_message after a select_assistant that raised.
C11_BadReplyIsSelectionFailure ==
    /\ (/\ Len(assistants) >= 2 /\ rpc \in {"returned", "raised"}
        /\ response.type \in {"AIMessage", "generations"}
        /\ ~NamesAssistant(response.content, Len(assistants)))
            => /\ rpc = "raised"
               /\ selection.exc \in SelectionFailures
               /\ selection.assistant = "none"
    /\ rpc = "delegated" => selection.exc = "none" /\ selection.assistant # "none"

\* C11 witness: a reply whose first integer is out of range ended in IndexError
C11_Witness ==
    /\ Len(assistants) = 2 /\ rpc = "raised"
    /\ response.content = <<"a", "2", "0">>
    /\ selection.exc = "IndexError"

----------------------------------------------------------------------------
(* Properties of job identity, firings and failures *)

\* the strings process_message returns for a failure start with this
ErrorIndicator == "An error occurred: "

HasErrorIndicator(reply) ==
    \E detail \in {"provider failure", "Unexpected response type"} :
        reply = ErrorIndicator \o detail

\* C16: get_id is a function of the job's kind, cron expression and chat id
\* alone, and in every reachable state, after any add_job, firing or lookup, each
\* key of the jobs mapping is the get_id of the job stored under it.
C16_KeysAreJobIds ==
    /\ \A j1, j2 \in JobObjs :
           (j1.kind = j2.kind /\ j1.cron_expression = j2.cron_expression
            /\ j1.chat_id = j2.chat_id) => get_id(j1) = get_id(j2)
    /\ \A i \in 1..Len(jobs) : jobs[i].id = get_id(jobs[i].job)

\* C16 witness: two jobs are registered, one of them by a replacing add_job,
\* after a firing
C16_Witness ==
    /\ Len(jobs) = 2 /\ firings >= 1
    /\ last.op = "add_job" /\ last.replaced /\ last.exc = "none"

\* a text a firing of job may send when its assistant call has completed: the
\* reply (or the error string process_message returned), with TestJob's prefix
BuiltFromReply(text, job) ==
    \E reply \in {Reply(job.prompt), ErrorReply} :
        text = (IF job.kind = "TestJob" THEN "Test message: " ELSE "") \o reply

\* C17: a firing hands a text to the channel only after its assistant call has
\* completed, and the text is built from the reply of that call: so is every text
\* of an execution at its send, and every text delivered.
C17_SendsOnlyTheReply ==
    /\ \A e \in running : e.pc = "send" => BuiltFromReply(e.message, e.job)
    /\ \A m \in sent : \E job \in JobObjs : job.chat_id = m[1] /\ BuiltFromReply(m[2], job)

\* C18: a firing whose message generation failed is skipped: the string of a
\* failed generation is never delivered to the channel.
C18_FailedGenerationSendsNothing ==
    \A m \in sent : ~HasErrorIndicator(m[2])

\* C19: an add_job or remove_job that raised left the mapping and the trigger
\* set exactly as they were.
C19_FailedCallChangesNothing ==
    [][(last'.op \in {"add_job", "remove_job"} /\ last'.exc # "none")
          => (jobs' = jobs /\ triggers' = triggers)]_vars

\* C20: when the token is missing, so that the token check of initialize()
\* cannot pass, no job is registered with the scheduler and no firing is dispatched.
C20_NoSchedulingBeforeTokenCheck ==
    ~token => (~application /\ triggers = {} /\ firings = 0)

\* C22: once shutdown() has completed the scheduler dispatches no firing, so no
\* job is executed or delivered for a trigger that comes due afterwards.
C22_NoFiringAfterShutdown ==
    [][shut => firings' = firings]_vars

\* C23: in every reachable state every id with a trigger registered in the
\* scheduler is a key of the jobs mapping: the scheduler can fire no job that
\* list_jobs does not show.
C23_TriggersAreListed ==
    \A t \in triggers : \E i \in 1..Len(list_jobs) : list_jobs[i] = t.id

\* C23 witness: after a one-shot job has fired and retired its trigger, a
\* trigger of another job is still registered and both ids are listed
C23_Witness ==
    /\ last.op = "fire_done" /\ last.job.kind = "TestJob" /\ last.delivered
    /\ Len(list_jobs) = 2
    /\ Cardinality(triggers) = 1

----------------------------------------------------------------------------
(* Properties of the conversation memories *)

\* self.memory of an assistant of the given kind; a SimpleAssistant has none
OwnMemory(kind) == IF kind \in MemoryOwners THEN memory[kind] ELSE <<>>

\* the memory in effect for the assistant's call: the supplied one (the
\* router's), or the assistant's own when none was supplied
EffectiveMemory == IF acall.supplied THEN memory["MultiAssistant"] ELSE OwnMemory(acall.kind)

\* the last two messages of m are the user's message and the reply, in this order
EndsWithExchange(m, message, reply) ==
    /\ Len(m) >= 2
    /\ m[Len(m) - 1] = Turn("human", message)
    /\ m[Len(m)] = Turn("ai", reply)

\* the last message of m is the user's message
EndsWithUserTurn(m, message) == Len(m) >= 1 /\ m[Len(m)] = Turn("human", message)

\* C12: whenever a concrete assistant's process_message(message) has returned R,
\* the last two turns of the memory in effect are (user, message), (assistant, R).
C12_LastTwoTurns ==
    acall.pc = "returned" => EndsWithExchange(EffectiveMemory, acall.message, acall.reply)

\* C13: whenever MultiAssistant.process_message(message) has returned R, the
\* router's memory is what it was at the call followed by exactly (user, message),
\* (assistant, R), whichever assistant was selected.
C13_SharedMemoryGrowsByTwo ==
    mcall.pc = "returned" =>
        memory["MultiAssistant"] =
            mcall.before \o <<Turn("human", mcall.message), Turn("ai", mcall.reply)>>

\* C14: when the provider or the query agent raised during process_message of an
\* OpenAIAssistant or a DataAssistant, the call returned (it did not raise) a
\* string with the error indicator, and the assistant's own memory and the
\* memory in effect both end with the user's turn: no assistant turn follows it.
C14_BackendFailureIsReported ==
    (acall.pc \in {"returned", "raised"} /\ acall.outcome = "raises") =>
        /\ acall.pc = "returned" /\ acall.exc = "none"
        /\ HasErrorIndicator(acall.reply)
        /\ EndsWithUserTurn(OwnMemory(acall.kind), acall.message)
        /\ EndsWithUserTurn(EffectiveMemory, acall.message)

\* C14 witness: an OpenAIAssistant answered one message, then its provider
\* raised on the next one
C14_Witness ==
    /\ acall.pc = "returned" /\ acall.outcome = "raises"
    /\ acall.kind = "OpenAIAssistant"
    /\ Len(memory["OpenAIAssistant"]) = 3
    /\ memory["OpenAIAssistant"][2].type = "ai"

\* C15: MultiAssistant.process_message raises nothing but a selection failure:
\* a provider failure, in the selection call or in the selected assistant's
\* call, comes back as a returned string.
C15_OnlySelectionFailureRaised ==
    mcall.pc = "raised" => mcall.exc \in SelectionFailures

\* C24: while and after an OpenAIAssistant works on a call that was given the
\* router's memory, that memory holds what it held at the router's call plus the
\* user turn the router itself appended: the assistant has written nothing to it;
\* the user turn, and the reply once returned, are in the assistant's own memory.
C24_SuppliedMemoryUntouched ==
    (acall.kind = "OpenAIAssistant" /\ acall.supplied /\ acall.pc # "idle") =>
        /\ memory["MultiAssistant"] = mcall.before \o <<Turn("human", mcall.message)>>
        /\ IF acall.pc = "returned" /\ acall.outcome = "reply"
           THEN EndsWithExchange(memory["OpenAIAssistant"], acall.message, acall.reply)
           ELSE EndsWithUserTurn(memory["OpenAIAssistant"], acall.message)

\* C24 witness: an OpenAIAssistant chosen among two has returned its reply to
\* the router's second message
C24_Witness ==
    /\ acall.kind = "OpenAIAssistant" /\ acall.supplied
    /\ acall.pc = "returned" /\ acall.outcome = "reply"
    /\ Len(assistants) = 2
    /\ Len(mcall.before) >= 1

\* C25: when MultiAssistant.process_message has ended in a selection failure,
\* the router's memory is what it was at the call followed by the (user, message)
\* turn alone, and the step that follows leaves that memory as it is, so the
\* turn is part of the history of the next message.
C25_SelectionFailureKeepsUserTurn ==
    [][/\ (mcall'.pc = "raised" /\ mcall'.exc \in SelectionFailures)
            => memory'["MultiAssistant"] =
                   mcall'.before \o <<Turn("human", mcall'.message)>>
       /\ (mcall.pc = "raised" /\ mcall.exc \in SelectionFailures)
            => memory'["MultiAssistant"] = memory["MultiAssistant"]]_vars

\* C25 witness: the second message ended in a selection failure too, and the
\* history it started from is the user turn the first message left behind
C25_Witness ==
    /\ mcall.pc = "raised" /\ mcall.exc = "ValueError"
    /\ mcall.before = <<Turn("human", "hi")>>
    /\ memory["MultiAssistant"] = <<Turn("human", "hi"), Turn("human", "weather?")>>

----------------------------------------------------------------------------
(* Properties of interleaved calls *)

\* the events that leave a turn: every call entered (its user turn) and every
\* call that left with a reply of the provider (its assistant turn)
TurnEvents == SelectSeq(events, LAMBDA e : e.kind = "enter" \/ e.outcome = "reply")

\* C21: when the calls of an inbound message and of a job firing interleave on
\* one OpenAIAssistant, its memory holds one user turn per call entered and one
\* assistant turn per call that got a reply, in the order the calls were entered
\* and completed: no turn twice, each call's user turn before its own assistant
\* turn, the assistant turns in completion order.
C21_TurnsFollowEntryAndCompletion ==
    /\ Len(memory["OpenAIAssistant"]) = Len(TurnEvents)
    /\ \A i \in 1..Len(TurnEvents) :
           memory["OpenAIAssistant"][i] =
               Turn(IF TurnEvents[i].kind = "enter" THEN "human" ELSE "ai", TurnEvents[i].text)
    /\ \A i, j \in 1..Len(events) :
           (events[i].n = events[j].n /\ events[i].kind = "enter" /\ events[j].kind = "leave")
               => i < j

\* C21 witness: the job's call was entered while the inbound call was suspended,
\* and it completed first; both replies are recorded
C21_Witness ==
    /\ Len(events) = 4
    /\ events[1].kind = "enter" /\ events[2].kind = "enter"
    /\ events[3] = Event("leave", 2, Reply("p1"), "reply")
    /\ events[4] = Event("leave", 1, Reply("hi"), "reply")
    /\ memory["OpenAIAssistant"] =
           <<Turn("human", "hi"), Turn("human", "p1"),
             Turn("ai", Reply("p1")), Turn("ai", Reply("hi"))>>

====
